---- MODULE Spec2Model ----
(***************************************************************************)
(* Virtual TA (lawnhero/jeff_550): the fallback model wrapper              *)
(* (utils/llm_models.py), the student chat page (app.py, utils/sidebar.py) *)
(* and the knowledge-base admin page (pages/1_..._Knowledge_Base_Admin.py).*)
(*                                                                         *)
(* Three specifications share the variables: SpecFallback drives one call  *)
(* on a ModelWithFallback, SpecChat one student session, SpecAdmin two     *)
(* admin sessions on the one index directory.  Each leaves the variables   *)
(* of the other components at their initial values.                        *)
(***************************************************************************)
EXTENDS Integers, Sequences, FiniteSets, TLC

VARIABLES
    \* ---- ModelWithFallback: one call and its consumer ----
    fb_pc,          \* "idle" | "consuming" (a stream was handed out) | "done"
    conv,           \* the method called on the wrapper
    primary,        \* behaviour of the primary handle for this call
    fallback,       \* behaviour of the fallback handle for this call
    calls,          \* handles attempted, in order
    log,            \* lines printed by _log_fallback
    ret,            \* what the wrapper's method returned or raised
    got,            \* fragments the consumer has received so far
    raised,         \* error observed by the caller ("none" when there is none)
    \* ---- student chat session ----
    session_state,  \* st.session_state of the student session
    db,             \* module-level db of app.py (cached load_db result)
    chat_pc,        \* "start" | "idle" | "streaming"
    user_query,     \* the submitted query of the turn in progress
    response,       \* fragments st.write_stream has collected so far
    recent_history, \* the window computed for the turn
    history_text,   \* the labelled lines built from the window
    banner,         \* the st.error text of the last script run
    before,         \* chat_history as it was when the turn was submitted
    outcome,        \* how the last interaction of the student session ended
    \* ---- admin sessions and the index directory ----
    admin_state,    \* st.session_state of each admin session
    rendered,       \* did the last script run render the protected page
    pc,             \* position of each session inside "Process Files"
    all_chunks,     \* chunks accumulated by the action in progress
    handle,         \* db local of update_or_create_faiss_index
    report,         \* outcome shown by the last "Process Files" action
    pre,            \* what the existence check of the last write saw
    last_event,     \* the last interaction of each session
    tmp_files,      \* transient copies of uploads present on disk
    saved,          \* the documents each session's last save_local wrote
    disk,           \* the index directory data/
    last_saver      \* session whose save_local ran last

vars_fb    == <<fb_pc, conv, primary, fallback, calls, log, ret, got, raised>>
vars_chat  == <<session_state, db, chat_pc, user_query, response,
                recent_history, history_text, banner, before, outcome>>
vars_admin == <<admin_state, rendered, pc, all_chunks, handle, report, pre,
                last_event, tmp_files, saved, disk, last_saver>>
vars       == <<vars_fb, vars_chat, vars_admin>>

(***************************************************************************)
(* Bounds                                                                  *)
(***************************************************************************)
StreamLen == 2      \* fragments in a complete handle stream
MaxFrags  == 2      \* fragments of an answer in the student chat
MaxHist   == 6      \* a query is accepted while the history has at most this many messages
MaxBatch  == 2      \* files in one "Process Files" batch

None == "none"

(***************************************************************************)
(* Model handles.  A handle is external; what the wrapper can see of it is *)
(* whether a method call raises, and, for a stream, whether iterating the  *)
(* returned object raises after some fragments.                            *)
(***************************************************************************)
Handles    == {"primary", "fallback"}
Single     == {"invoke", "ainvoke", "_generate", "_agenerate"}
Streaming  == {"stream", "astream"}
Conventions == Single \cup Streaming

\* mode "ok": succeeds; "raise_call": the method call itself raises;
\* "raise_iter": the call returns a stream that raises after n fragments.
Behaviours(c) ==
    IF c \in Streaming
    THEN [mode : {"ok", "raise_call"}, n : {StreamLen}]
         \cup [mode : {"raise_iter"}, n : 0..StreamLen]
    ELSE [mode : {"ok", "raise_call"}, n : {0}]

Val(h)  == <<"value", h>>                          \* the handle's result
Err(h)  == <<"error", h>>                          \* the handle's exception
Frags(h) == [i \in 1..StreamLen |-> <<h, i>>]     \* the handle's full stream

\* Result of calling method c of handle h.
HandleCall(h, c, beh) ==
    IF beh.mode = "raise_call"
    THEN [kind |-> "error", src |-> h, n |-> 0, fails |-> FALSE]
    ELSE IF c \in Streaming
    THEN [kind |-> "stream", src |-> h, n |-> beh.n,
          fails |-> beh.mode = "raise_iter"]
    ELSE [kind |-> "value", src |-> h, n |-> 0, fails |-> FALSE]

\* _log_fallback: one line when verbose (the default).
verbose == TRUE
_log_fallback(error, method_name) ==
    IF verbose THEN <<[method |-> method_name, error |-> error]>> ELSE <<>>

\* try: return primary.m(...)  except Exception as e: log; return fallback.m(...)
\* Only an exception raised while the try body runs is caught: the body
\* ends when the handle's method has returned.
TryPrimary(c, pb, fb) ==
    LET r == HandleCall("primary", c, pb) IN
    IF r.kind = "error"
    THEN [ret   |-> HandleCall("fallback", c, fb),
          calls |-> <<"primary", "fallback">>,
          log   |-> _log_fallback(Err("primary"), c)]
    ELSE [ret |-> r, calls |-> <<"primary">>, log |-> <<>>]

\* on a fallback failure the primary's error is raised again
invoke_reraise(pb, fb) ==
    LET o == TryPrimary("invoke", pb, fb) IN
    IF o.ret.kind = "error" THEN [o EXCEPT !.ret.src = "primary"] ELSE o

_generate(pb, fb)  == TryPrimary("_generate", pb, fb)
_agenerate(pb, fb) == TryPrimary("_agenerate", pb, fb)
invoke(pb, fb)     == TryPrimary("invoke", pb, fb)
ainvoke(pb, fb)    == TryPrimary("ainvoke", pb, fb)

\* A wrapper stream that would also catch errors raised during iteration.
StreamGuarded(c, pb, fb) ==
    LET r == HandleCall("primary", c, pb) IN
    IF r.kind = "error" \/ r.fails
    THEN [ret   |-> HandleCall("fallback", c, fb),
          calls |-> <<"primary", "fallback">>,
          log   |-> _log_fallback(Err("primary"), c)]
    ELSE [ret |-> r, calls |-> <<"primary">>, log |-> <<>>]

stream_guarded(pb, fb) == StreamGuarded("stream", pb, fb)

stream(pb, fb)     == TryPrimary("stream", pb, fb)
astream(pb, fb)    == TryPrimary("astream", pb, fb)

Dispatch(c, pb, fb) ==
    CASE c = "_generate"  -> _generate(pb, fb)
      [] c = "_agenerate" -> _agenerate(pb, fb)
      [] c = "invoke"     -> invoke(pb, fb)
      [] c = "ainvoke"    -> ainvoke(pb, fb)
      [] c = "stream"     -> stream(pb, fb)
      [] c = "astream"    -> astream(pb, fb)

NoRet == [kind |-> "none", src |-> None, n |-> 0, fails |-> FALSE]

InitFallback ==
    /\ fb_pc = "idle"
    /\ conv = None
    /\ primary = [mode |-> "ok", n |-> 0]
    /\ fallback = [mode |-> "ok", n |-> 0]
    /\ calls = <<>>
    /\ log = <<>>
    /\ ret = NoRet
    /\ got = <<>>
    /\ raised = None

\* The caller calls one method of the wrapper.
Call ==
    /\ fb_pc = "idle"
    /\ \E c \in Conventions : \E pb \in Behaviours(c) : \E fb \in Behaviours(c) :
         LET o == Dispatch(c, pb, fb) IN
         /\ conv' = c
         /\ primary' = pb
         /\ fallback' = fb
         /\ calls' = o.calls
         /\ log' = o.log
         /\ ret' = o.ret
         /\ got' = <<>>
         /\ raised' = IF o.ret.kind = "error" THEN Err(o.ret.src) ELSE None
         /\ fb_pc' = IF o.ret.kind = "stream" THEN "consuming" ELSE "done"
    /\ UNCHANGED <<vars_chat, vars_admin>>

\* The consumer pulls the next element of the stream it was handed.
Consume ==
    /\ fb_pc = "consuming"
    /\ IF Len(got) < ret.n
       THEN /\ got' = Append(got, Frags(ret.src)[Len(got) + 1])
            /\ UNCHANGED <<fb_pc, raised>>
       ELSE /\ fb_pc' = "done"
            /\ raised' = IF ret.fails THEN Err(ret.src) ELSE None
            /\ UNCHANGED got
    /\ UNCHANGED <<conv, primary, fallback, calls, log, ret>>
    /\ UNCHANGED <<vars_chat, vars_admin>>

\* The next request starts from a fresh call state.
Reset ==
    /\ fb_pc = "done"
    /\ fb_pc' = "idle"
    /\ conv' = None
    /\ primary' = [mode |-> "ok", n |-> 0]
    /\ fallback' = [mode |-> "ok", n |-> 0]
    /\ calls' = <<>>
    /\ log' = <<>>
    /\ ret' = NoRet
    /\ got' = <<>>
    /\ raised' = None
    /\ UNCHANGED <<vars_chat, vars_admin>>

NextFallback == Call \/ Consume \/ Reset

(***************************************************************************)
(* The index directory and its loader.                                     *)
(***************************************************************************)
NoIndex == [exists |-> FALSE, docs |-> <<>>]
Index(docs) == [exists |-> TRUE, docs |-> docs]

\* FAISS.load_local(path, embeddings, allow_dangerous_deserialization=False):
\* the loader refuses to unpickle unless the caller opts in, and fails when
\* there is no index at the path.
load_local(d, allow_dangerous_deserialization) ==
    IF ~allow_dangerous_deserialization \/ ~d.exists
    THEN [ok |-> FALSE, docs |-> <<>>]
    ELSE [ok |-> TRUE, docs |-> d.docs]

(***************************************************************************)
(* Student chat (app.py, utils/sidebar.py)                                 *)
(***************************************************************************)
Queries   == {<<"q1">>, <<"q2">>}          \* texts are sequences of tokens
\* the i-th text fragment of an answer stream (fragments differ in length)
Fragment(i) == IF i % 2 = 1 THEN <<"a">> ELSE <<"b", "c">>

HumanMessage(content) == [role |-> "Human", content |-> content]
AIMessage(content)    == [role |-> "AI", content |-> content]
Greeting == AIMessage(<<"Hello! I'm your Virtual TA for ISOM 550. How can I help you today?">>)

UnavailableMsg == "Knowledge base not available. Please contact your instructor."

EmptyState == [k \in {} |-> None]
Has(ss, key) == key \in DOMAIN ss
Put(ss, key, v) == [k \in DOMAIN ss \cup {key} |-> IF k = key THEN v ELSE ss[k]]
Del(ss, key) == [k \in DOMAIN ss \ {key} |-> ss[k]]

chat_history == IF Has(session_state, "chat_history")
                THEN session_state["chat_history"] ELSE <<>>

\* app.py load_db: the loaded index, or None after any exception.
load_db(d) ==
    LET r == load_local(d, TRUE) IN
    IF r.ok THEN [loaded |-> TRUE, docs |-> r.docs]
    ELSE [loaded |-> FALSE, docs |-> <<>>]

NoDb == [loaded |-> FALSE, docs |-> <<>>]

\* rag_chain = chains.rag_chain(llm, retriever) if db else None
rag_chain(d) == IF d.loaded THEN "chain" ELSE None

\* if db and rag_chain
knowledge_base_present(d, chain) == d.loaded /\ chain # None

\* if not db or not rag_chain
knowledge_base_missing(d, chain) == ~d.loaded \/ chain = None

\* main, lines 52-55: first run of a session creates the greeting.
initialize(ss) ==
    IF ~Has(ss, "chat_history")
    THEN Put(ss, "chat_history", <<Greeting>>)
    ELSE ss

WINDOW == 4

LastN(h, k) == SubSeq(h, Len(h) - k + 1, Len(h))

\* h[:4] instead of h[-4:]
recent_window_head(h) == IF Len(h) > WINDOW THEN SubSeq(h, 1, WINDOW) ELSE h

\* chat_history[-4:] if len(chat_history) > 4 else chat_history
recent_window(h) == IF Len(h) > WINDOW THEN LastN(h, WINDOW) ELSE h

\* "Human" if i % 2 == 1 else "AI"
render_history_odd(w) ==
    [i \in 1..Len(w) |->
        [label |-> IF (i - 1) % 2 = 1 THEN "Human" ELSE "AI",
         content |-> w[i].content]]

\* "Human" if i % 2 == 0 else "AI", i counted from 0 inside the window
render_history(w) ==
    [i \in 1..Len(w) |->
        [label |-> IF (i - 1) % 2 = 0 THEN "Human" ELSE "AI",
         content |-> w[i].content]]

RECURSIVE Concat(_)
Concat(fs) == IF fs = <<>> THEN <<>> ELSE Head(fs) \o Concat(Tail(fs))

\* st.write_stream: the concatenation of the streamed text fragments.
write_stream(fs) == Concat(fs)

\* the AI message first, then the query
extend_swapped(h, q, r) == h \o <<AIMessage(r), HumanMessage(q)>>

\* chat_history.extend([HumanMessage(user_query), AIMessage(response)])
extend_history(h, q, r) == h \o <<HumanMessage(q), AIMessage(r)>>

\* the query is recorded before the stream is consumed
finish_turn_query_first(h, q, fs, raises) ==
    IF raises THEN h \o <<HumanMessage(q)>>
    ELSE extend_history(h, q, write_stream(fs))

\* response = st.write_stream(rag_chain.stream(...)); chat_history.extend(...)
\* An exception of the stream leaves main before the extend is reached.
finish_turn(h, q, fs, raises) ==
    IF raises THEN h
    ELSE extend_history(h, q, write_stream(fs))

\* clear_chat_history: st.session_state.chat_history = [], then st.rerun();
\* the rerun finds the key present and main does not initialize it again.
clear_chat_history(ss) == initialize(Put(ss, "chat_history", <<>>))

InitChat ==
    /\ session_state = EmptyState
    /\ db = NoDb
    /\ chat_pc = "start"
    /\ user_query = <<>>
    /\ response = <<>>
    /\ recent_history = <<>>
    /\ history_text = <<>>
    /\ banner = None
    /\ before = <<>>
    /\ outcome = None

\* First script run of the session: load_db (cached from here on), main().
FirstLoad ==
    /\ chat_pc = "start"
    /\ db' = load_db(disk)
    /\ session_state' = initialize(session_state)
    /\ chat_pc' = "idle"
    /\ outcome' = "loaded"
    /\ UNCHANGED <<user_query, response, recent_history, history_text, banner, before>>
    /\ UNCHANGED <<vars_fb, vars_admin>>

\* The user submits q in st.chat_input: one script run up to the point where
\* it returns (no knowledge base) or starts to consume the chain's stream.
Submit ==
    /\ chat_pc = "idle"
    /\ Len(chat_history) <= MaxHist
    /\ \E q \in Queries :
        LET ss == initialize(session_state)
            h  == ss["chat_history"]
        IN
        /\ user_query' = q
        /\ before' = h
        /\ response' = <<>>
        /\ IF knowledge_base_missing(db, rag_chain(db))
           THEN /\ banner' = UnavailableMsg
                /\ outcome' = "unavailable"
                /\ chat_pc' = "idle"
                /\ session_state' = ss
                /\ UNCHANGED <<recent_history, history_text>>
           ELSE /\ recent_history' = recent_window(h)
                /\ history_text' = render_history(recent_window(h))
                /\ session_state' = ss
                /\ banner' = None
                /\ IF rag_chain(db) = None
                   THEN /\ outcome' = "raised"      \* None has no stream
                        /\ chat_pc' = "idle"
                   ELSE /\ outcome' = "streaming"
                        /\ chat_pc' = "streaming"
    /\ UNCHANGED db
    /\ UNCHANGED <<vars_fb, vars_admin>>

\* The chain yields one more fragment; write_stream renders and keeps it.
StreamFragment ==
    /\ chat_pc = "streaming"
    /\ Len(response) < MaxFrags
    /\ response' = Append(response, Fragment(Len(response) + 1))
    /\ UNCHANGED <<session_state, db, chat_pc, user_query, recent_history,
                   history_text, banner, before, outcome>>
    /\ UNCHANGED <<vars_fb, vars_admin>>

\* The stream is exhausted: write_stream returns, the history is extended.
StreamEnd ==
    /\ chat_pc = "streaming"
    /\ session_state' = Put(session_state, "chat_history",
            finish_turn(chat_history, user_query, response, FALSE))
    /\ chat_pc' = "idle"
    /\ outcome' = "answered"
    /\ UNCHANGED <<db, user_query, response, recent_history, history_text,
                   banner, before>>
    /\ UNCHANGED <<vars_fb, vars_admin>>

\* The chain raises before exhaustion: nothing catches it, the run ends.
StreamRaise ==
    /\ chat_pc = "streaming"
    /\ session_state' = Put(session_state, "chat_history",
            finish_turn(chat_history, user_query, response, TRUE))
    /\ chat_pc' = "idle"
    /\ outcome' = "raised"
    /\ UNCHANGED <<db, user_query, response, recent_history,
                   history_text, banner, before>>
    /\ UNCHANGED <<vars_fb, vars_admin>>

\* The sidebar's Clear button: clear_chat_history and the rerun it starts.
Clear ==
    /\ chat_pc = "idle"
    /\ session_state' = clear_chat_history(session_state)
    /\ outcome' = "cleared"
    /\ banner' = None
    /\ UNCHANGED <<db, chat_pc, user_query, response, recent_history,
                   history_text, before>>
    /\ UNCHANGED <<vars_fb, vars_admin>>

NextChat == FirstLoad \/ Submit \/ StreamFragment \/ StreamEnd \/ StreamRaise \/ Clear

(***************************************************************************)
(* Knowledge-base admin page                                               *)
(***************************************************************************)
Sess == {1, 2}

Secret    == "admin-secret"        \* st.secrets['general']['admin_password']
Passwords == {"guess", Secret}     \* what an operator may type
EmptyText == ""                    \* value of a freshly rendered text_input

\* password_entered without the del
password_entered_keep(ss) ==
    IF ss["password"] = Secret
    THEN Put(ss, "password_correct", TRUE)
    ELSE Put(ss, "password_correct", FALSE)

\* on_change callback of the password input
password_entered(ss) ==
    IF ss["password"] = Secret
    THEN Del(Put(ss, "password_correct", TRUE), "password")
    ELSE Put(ss, "password_correct", FALSE)

\* st.session_state.get("password_correct", False)
flag(ss) == IF Has(ss, "password_correct") THEN ss["password_correct"] ELSE FALSE

\* check_password: True when the flag is set; else the prompt is drawn (the
\* keyed text_input puts its value into the session state) and False.
check_password(ss) ==
    IF flag(ss)
    THEN [ok |-> TRUE, ss |-> ss]
    ELSE [ok |-> FALSE,
          ss |-> IF Has(ss, "password") THEN ss ELSE Put(ss, "password", EmptyText)]

\* One run of the page script: if not check_password(): st.stop()
script_run(ss) ==
    LET r == check_password(ss) IN [ss |-> r.ss, rendered |-> r.ok]

\* Logout button: the flag is dropped, st.rerun() runs the script again.
logout(ss) == script_run(Put(ss, "password_correct", FALSE))

\* Uploaded files.  "notes.txt" splits into two chunks, "blank.txt" into
\* none, and loading "broken.pdf" raises.
Files == {"notes.txt", "blank.txt", "broken.pdf"}
\* Splitting the documents of "odd.docx" raises.
AllFiles == Files \cup {"odd.docx"}
FileError == "An error occurred: cannot load broken.pdf"
SplitError == "An error occurred: cannot split odd.docx"
LoadError == "An error occurred: allow_dangerous_deserialization"
Success   == "success"

Batches == UNION {[1..n -> Files] : n \in 1..MaxBatch}
Uploads == UNION {[1..n -> AllFiles] : n \in 1..MaxBatch}

\* tempfile.NamedTemporaryFile(delete=False, suffix=...): the copy's path
tmp_path(s, f) == <<"tmp", s, f>>

\* loader.load() and text_splitter.split_documents(documents)
loader_raises(f)   == f = "broken.pdf"
splitter_raises(f) == f = "odd.docx"
split_documents(s, f) ==
    IF f = "notes.txt" THEN <<<<s, f, 1>>, <<s, f, 2>>>> ELSE <<>>

\* the copy is unlinked after the return only, not in a finally
process_file_no_finally(s, f) ==
    LET created == {tmp_path(s, f)}
        error   == IF loader_raises(f) THEN FileError
                   ELSE IF splitter_raises(f) THEN SplitError ELSE None
    IN [ok     |-> error = None,
        error  |-> error,
        chunks |-> IF error = None THEN split_documents(s, f) ELSE <<>>,
        tmp    |-> IF error = None THEN created \ {tmp_path(s, f)} ELSE created]

\* process_file: the upload is copied to a transient file; the chunks of the
\* file, or the loader's or the splitter's exception; finally: os.unlink.
process_file(s, f) ==
    LET created == {tmp_path(s, f)}
        error   == IF loader_raises(f) THEN FileError
                   ELSE IF splitter_raises(f) THEN SplitError ELSE None
    IN [ok     |-> error = None,
        error  |-> error,
        chunks |-> IF error = None THEN split_documents(s, f) ELSE <<>>,
        tmp    |-> created \ {tmp_path(s, f)}]

\* a file that raises is skipped and the loop goes on
RECURSIVE process_files_skip(_, _, _)
process_files_skip(s, files, acc) ==
    IF files = <<>> THEN acc
    ELSE LET r == process_file(s, Head(files)) IN
         process_files_skip(s, Tail(files),
             [acc EXCEPT !.chunks = @ \o r.chunks, !.tmp = @ \cup r.tmp])

\* for file in uploaded_files: all_chunks.extend(process_file(file, ...))
\* An exception of process_file ends the loop; acc is the loop's state.
RECURSIVE process_files(_, _, _)
process_files(s, files, acc) ==
    IF files = <<>> THEN acc
    ELSE LET r == process_file(s, Head(files)) IN
         IF ~r.ok
         THEN [acc EXCEPT !.ok = FALSE, !.error = r.error, !.tmp = @ \cup r.tmp]
         ELSE process_files(s, Tail(files),
                  [acc EXCEPT !.chunks = @ \o r.chunks, !.tmp = @ \cup r.tmp])

\* all_chunks = [] before the loop
LoopStart == [ok |-> TRUE, error |-> None, chunks |-> <<>>, tmp |-> {}]

\* save_local that leaves an index already at the path alone
save_local_keep(d, docs) == IF d.exists THEN d ELSE Index(docs)

\* db.save_local(db_path): the directory now holds this index, whole.
save_local(d, docs) == Index(docs)

NotCalled == [called |-> FALSE, exists |-> FALSE, docs |-> <<>>]
NoEvent   == [kind |-> None, pw |-> EmptyText]

InitAdmin ==
    /\ admin_state = [s \in Sess |-> EmptyState]
    /\ rendered = [s \in Sess |-> FALSE]
    /\ pc = [s \in Sess |-> "idle"]
    /\ all_chunks = [s \in Sess |-> <<>>]
    /\ handle = [s \in Sess |-> <<>>]
    /\ report = [s \in Sess |-> None]
    /\ pre = [s \in Sess |-> NotCalled]
    /\ last_event = [s \in Sess |-> NoEvent]
    /\ tmp_files = {}
    /\ saved = [s \in Sess |-> <<>>]
    /\ last_saver = 0

\* A session opens the page: first script run.
Open(s) ==
    /\ last_event[s].kind = None
    /\ LET r == script_run(admin_state[s]) IN
        /\ admin_state' = [admin_state EXCEPT ![s] = r.ss]
        /\ rendered' = [rendered EXCEPT ![s] = r.rendered]
    /\ last_event' = [last_event EXCEPT ![s] = [kind |-> "open", pw |-> EmptyText]]
    /\ UNCHANGED <<pc, all_chunks, handle, report, pre, saved, disk, last_saver, tmp_files>>
    /\ UNCHANGED <<vars_fb, vars_chat>>

\* The operator changes the password input to p: callback, then script run.
SubmitPassword(s) ==
    /\ pc[s] = "idle"
    /\ last_event[s].kind # None
    /\ ~rendered[s]
    /\ \E p \in Passwords :
        /\ admin_state[s]["password"] # p
        /\ LET typed == Put(admin_state[s], "password", p)
               r == script_run(password_entered(typed))
           IN /\ admin_state' = [admin_state EXCEPT ![s] = r.ss]
              /\ rendered' = [rendered EXCEPT ![s] = r.rendered]
        /\ last_event' = [last_event EXCEPT ![s] = [kind |-> "submit", pw |-> p]]
    /\ UNCHANGED <<pc, all_chunks, handle, report, pre, saved, disk, last_saver, tmp_files>>
    /\ UNCHANGED <<vars_fb, vars_chat>>

Logout(s) ==
    /\ pc[s] = "idle"
    /\ rendered[s]
    /\ LET r == logout(admin_state[s]) IN
        /\ admin_state' = [admin_state EXCEPT ![s] = r.ss]
        /\ rendered' = [rendered EXCEPT ![s] = r.rendered]
    /\ last_event' = [last_event EXCEPT ![s] = [kind |-> "logout", pw |-> EmptyText]]
    /\ UNCHANGED <<pc, all_chunks, handle, report, pre, saved, disk, last_saver, tmp_files>>
    /\ UNCHANGED <<vars_fb, vars_chat>>

\* "Process Files" on the uploaded files: the loop over the files, up to the
\* call of update_or_create_faiss_index or to the except clause of main.
ProcessFilesOn(s, files) ==
    LET r == process_files(s, files, LoopStart) IN
    /\ all_chunks' = [all_chunks EXCEPT ![s] = r.chunks]
    /\ tmp_files' = tmp_files \cup r.tmp
    /\ IF ~r.ok
       THEN /\ report' = [report EXCEPT ![s] = r.error]
            /\ pc' = pc
       ELSE IF r.chunks = <<>>
       THEN /\ report' = [report EXCEPT ![s] = None]
            /\ pc' = pc
       ELSE /\ report' = [report EXCEPT ![s] = None]
            /\ pc' = [pc EXCEPT ![s] = "exists"]
    /\ UNCHANGED <<admin_state, rendered, handle, pre, last_event, saved, disk, last_saver>>
    /\ UNCHANGED <<vars_fb, vars_chat>>

\* if uploaded_files and st.button("Process Files"), the uploaded files
\* being one of the batches of B
ProcessFiles(s, B) ==
    /\ pc[s] = "idle"
    /\ rendered[s]
    /\ \E files \in B : ProcessFilesOn(s, files)

\* os.path.exists(os.path.join(db_path, "index.faiss"))
ExistsCheck(s) ==
    /\ pc[s] = "exists"
    /\ pre' = [pre EXCEPT ![s] = [called |-> TRUE, exists |-> disk.exists,
                                  docs |-> disk.docs]]
    /\ pc' = [pc EXCEPT ![s] = IF disk.exists THEN "load" ELSE "create"]
    /\ UNCHANGED <<admin_state, rendered, all_chunks, handle, report, last_event,
                   saved, disk, last_saver, tmp_files>>
    /\ UNCHANGED <<vars_fb, vars_chat>>

\* db = FAISS.load_local(db_path, embeddings); db.add_documents(chunks)
\* An exception leaves update_or_create and is caught in main.
LoadAndAdd(s) ==
    /\ pc[s] = "load"
    /\ LET r == load_local(disk, FALSE) IN
       IF r.ok
       THEN /\ handle' = [handle EXCEPT ![s] = r.docs \o all_chunks[s]]
            /\ pc' = [pc EXCEPT ![s] = "save"]
            /\ UNCHANGED report
       ELSE /\ report' = [report EXCEPT ![s] = LoadError]
            /\ pc' = [pc EXCEPT ![s] = "idle"]
            /\ UNCHANGED handle
    /\ UNCHANGED <<admin_state, rendered, all_chunks, pre, last_event, saved,
                   disk, last_saver, tmp_files>>
    /\ UNCHANGED <<vars_fb, vars_chat>>

\* db = FAISS.from_documents(chunks, embeddings)
Create(s) ==
    /\ pc[s] = "create"
    /\ handle' = [handle EXCEPT ![s] = all_chunks[s]]
    /\ pc' = [pc EXCEPT ![s] = "save"]
    /\ UNCHANGED <<admin_state, rendered, all_chunks, report, pre, last_event,
                   saved, disk, last_saver, tmp_files>>
    /\ UNCHANGED <<vars_fb, vars_chat>>

\* os.makedirs; db.save_local(db_path); return db; st.success(...)
Save(s) ==
    /\ pc[s] = "save"
    /\ disk' = save_local(disk, handle[s])
    /\ saved' = [saved EXCEPT ![s] = handle[s]]
    /\ last_saver' = s
    /\ handle' = [handle EXCEPT ![s] = <<>>]
    /\ report' = [report EXCEPT ![s] = Success]
    /\ pc' = [pc EXCEPT ![s] = "idle"]
    /\ UNCHANGED <<admin_state, rendered, all_chunks, pre, last_event, tmp_files>>
    /\ UNCHANGED <<vars_fb, vars_chat>>

NextAdmin ==
    \E s \in Sess :
        \/ Open(s)
        \/ SubmitPassword(s)
        \/ Logout(s)
        \/ ProcessFiles(s, Batches)
        \/ ExistsCheck(s)
        \/ LoadAndAdd(s)
        \/ Create(s)
        \/ Save(s)

\* One administrator at work, with uploads of every kind.
Uploader == 1
NextIngest ==
    \/ Open(Uploader)
    \/ SubmitPassword(Uploader)
    \/ Logout(Uploader)
    \/ ProcessFiles(Uploader, Uploads)
    \/ ExistsCheck(Uploader)
    \/ LoadAndAdd(Uploader)
    \/ Create(Uploader)
    \/ Save(Uploader)

(***************************************************************************)
(* Specifications                                                          *)
(***************************************************************************)
SeedIndex == Index(<<<<0, "seed.txt", 1>>>>)    \* an index left by an earlier deployment

InitFb    == InitFallback /\ InitChat /\ InitAdmin /\ disk = NoIndex
InitStudent == InitFallback /\ InitChat /\ InitAdmin /\ disk \in {NoIndex, SeedIndex}
InitKb    == InitFallback /\ InitChat /\ InitAdmin /\ disk \in {NoIndex, SeedIndex}

SpecFallback == InitFb /\ [][NextFallback]_vars
SpecChat     == InitStudent /\ [][NextChat]_vars
SpecAdmin    == InitKb /\ [][NextAdmin]_vars
SpecIngest   == InitKb /\ [][NextIngest]_vars

(***************************************************************************)
(* Properties                                                              *)
(***************************************************************************)
Min(a, b) == IF a < b THEN a ELSE b
Range(f) == {f[i] : i \in DOMAIN f}
IsPrefix(p, q) == Len(p) <= Len(q) /\ \A i \in 1..Len(p) : p[i] = q[i]

\* What the caller of the wrapper holds once the call is over.
Delivered == IF ret.kind = "value" THEN Val(ret.src) ELSE got
V == IF conv \in Streaming THEN Frags("fallback") ELSE Val("fallback")

\* C1: with a primary that always fails and a fallback that always succeeds
\* with V, every calling convention delivers exactly V and no error reaches
\* the caller.
C1_FallbackDeliversV ==
    (fb_pc = "done" /\ primary.mode # "ok" /\ fallback.mode = "ok")
        => (raised = None /\ Delivered = V)

PrimaryFailed  == "primary" \in Range(calls) /\ primary.mode # "ok"
FallbackFailed == "fallback" \in Range(calls) /\ fallback.mode # "ok"

\* C2: when both handles fail in a call, the caller observes the fallback's
\* error, and each handle was attempted exactly once, the primary first.
C2_FallbackErrorObserved ==
    (fb_pc = "done" /\ PrimaryFailed /\ FallbackFailed)
        => (raised = Err("fallback") /\ calls = <<"primary", "fallback">>)

C2_Witness ==
    /\ fb_pc = "done" /\ PrimaryFailed /\ FallbackFailed
    /\ conv = "invoke" /\ raised = Err("fallback")

\* C3: the chat history of a session always begins with the greeting, and
\* after clear (with its rerun) it is the single greeting of a fresh session.
C3_BeginsWithGreeting ==
    /\ chat_pc # "start" => (chat_history # <<>> /\ Head(chat_history) = Greeting)
    /\ outcome = "cleared" => chat_history = <<Greeting>>

\* C4: a password other than the secret leaves password_correct false and the
\* protected page unrendered; the secret sets password_correct and leaves no
\* submitted password in the session state; the protected page is rendered
\* only with password_correct true.
C4_AuthenticationGate ==
    \A s \in Sess :
        LET ss == admin_state[s] ev == last_event[s] IN
        /\ (ev.kind = "submit" /\ ev.pw # Secret)
              => (Has(ss, "password_correct") /\ ss["password_correct"] = FALSE
                  /\ ~rendered[s])
        /\ (ev.kind = "submit" /\ ev.pw = Secret)
              => (Has(ss, "password_correct") /\ ss["password_correct"] = TRUE
                  /\ ~Has(ss, "password")
                  /\ \A k \in DOMAIN ss \ {"password_correct"} : ss[k] # Secret)
        /\ rendered[s] => (Has(ss, "password_correct") /\ ss["password_correct"] = TRUE)

C4_Witness ==
    /\ last_event[1] = [kind |-> "submit", pw |-> Secret] /\ rendered[1]
    /\ last_event[2] = [kind |-> "submit", pw |-> "guess"] /\ ~rendered[2]
    /\ Has(admin_state[2], "password_correct")

\* Some chunk that session s saved is missing from the index directory.
LostUpdate(s) == \E c \in Range(saved[s]) : c \notin Range(disk.docs)

\* C5: save is a whole overwrite by whoever saves last and every save is
\* reported as a success, so two overlapping update-or-create runs can leave
\* an index without one side's chunks while both sides show success.
C5_LastWriteWinsSilently ==
    \A s \in Sess :
        /\ last_saver = s => disk = Index(saved[s])
        /\ (pc[s] = "idle" /\ report[s] = Success)
              => (saved[s] = all_chunks[s] /\ saved[s] # <<>>)

C5_Witness ==
    /\ \A s \in Sess : pc[s] = "idle" /\ report[s] = Success /\ saved[s] # <<>>
    /\ \E s \in Sess : LostUpdate(s) /\ \A c \in Range(saved[s]) : c \notin Range(disk.docs)

\* C6: for one administrator working alone on a path that held no index,
\* every finished update-or-create call succeeds and leaves the index holding
\* what the path held before the call followed by the supplied chunks: the
\* first call creates exactly its chunks, a later call appends its own.
C6_CreateThenAppend ==
    \A s \in Sess :
        ( /\ \A t \in Sess \ {s} : ~pre[t].called
          /\ last_saver = s
          /\ pre[s].called /\ pc[s] = "idle" /\ report[s] \notin {None, FileError, SplitError} )
        => ( /\ report[s] = Success
             /\ disk = Index(pre[s].docs \o all_chunks[s])
             /\ Len(disk.docs) = Len(pre[s].docs) + Len(all_chunks[s]) )

\* C7: a turn whose stream runs to completion appends the Human query and
\* then the Assistant message holding the concatenated fragments, nothing
\* before the stream is exhausted, and changes no earlier message.
C7_TurnAppendsTwo ==
    /\ chat_pc = "streaming" => chat_history = before
    /\ outcome = "answered" =>
          /\ Len(chat_history) = Len(before) + 2
          /\ IsPrefix(before, chat_history)
          /\ chat_history[Len(before) + 1] = [role |-> "Human", content |-> user_query]
          /\ chat_history[Len(before) + 2] = [role |-> "AI", content |-> Concat(response)]

C7_Witness ==
    /\ outcome = "answered" /\ Len(response) = 2 /\ Len(before) >= 3
    /\ response[1] # response[2]

\* C8: without a knowledge base every submitted query ends with the fixed
\* error and the chat history as it was; no turn is ever recorded.
C8_UnavailableNoTurn ==
    (~db.loaded /\ chat_pc # "start") =>
        /\ outcome \in {"loaded", "unavailable", "cleared"}
        /\ outcome = "unavailable" => (banner = UnavailableMsg /\ chat_history = before)
        /\ chat_history \in {<<Greeting>>, <<>>}
        /\ chat_pc = "idle"

C8_Witness ==
    /\ ~db.loaded /\ outcome = "unavailable" /\ banner = UnavailableMsg
    /\ user_query \in Queries /\ chat_history = <<Greeting>>

C10_RecencyWindow ==
    chat_pc = "streaming" =>
        LET n == Len(before) k == Min(4, n) IN
        /\ Len(recent_history) = k
        /\ \A i \in 1..k : recent_history[i] = before[n - k + i]

C10_Witness ==
    /\ chat_pc = "streaming" /\ Len(before) > 4
    /\ Len(recent_history) = 4 /\ recent_history # SubSeq(before, 1, 4)

\* Every Human message of the history is directly followed by an AI message.
HumanAnswered(h) ==
    \A i \in 1..Len(h) :
        h[i].role = "Human" => (i < Len(h) /\ h[i + 1].role = "AI")

\* C12: when the chain's stream raises before it is exhausted the history of
\* the session is what it was at submission (no query, no partial answer), so
\* the history never holds a Human message without the AI message after it.
C12_RaiseLeavesHistory ==
    /\ outcome = "raised" => chat_history = before
    /\ HumanAnswered(chat_history)

C12_Witness ==
    /\ outcome = "raised" /\ response # <<>> /\ Len(before) >= 3
    /\ chat_history = before

\* Some line of the rendered window carries a label other than the role of
\* the message it renders.
Mislabelled ==
    \E i \in 1..Len(recent_history) :
        history_text[i].label # recent_history[i].role

\* C14: for a history of more than 4 messages every line of the window is
\* labelled with its message's role; a line is mislabelled only when the
\* window starts at the greeting: uncleared histories of 1 or 3 messages.
C14_PositionalLabels ==
    chat_pc = "streaming" =>
        /\ Len(history_text) = Len(recent_history)
        /\ Len(before) > 4 => ~Mislabelled
        /\ Mislabelled =>
              /\ recent_history[1] = Greeting
              /\ before[1] = Greeting
              /\ Len(before) \in {1, 3}

C14_Witness ==
    /\ chat_pc = "streaming" /\ Len(before) > 4 /\ before[1] = Greeting
    /\ ~Mislabelled /\ history_text[1].label = "Human"

\* The first file of a batch that process_file raises on, 0 when there is none.
Raises(f) == loader_raises(f) \/ splitter_raises(f)
FirstRaising(files) ==
    IF \E i \in 1..Len(files) : Raises(files[i])
    THEN CHOOSE i \in 1..Len(files) :
            Raises(files[i]) /\ \A j \in 1..(i - 1) : ~Raises(files[j])
    ELSE 0

\* The chunks of the first n files of a batch, none of which raises.
RECURSIVE ChunksOfFirst(_, _, _)
ChunksOfFirst(s, files, n) ==
    IF n = 0 THEN <<>>
    ELSE ChunksOfFirst(s, files, n - 1) \o split_documents(s, files[n])

C13_BatchAborts ==
    [][\A files \in Uploads :
          ProcessFilesOn(Uploader, files) =>
              LET k == FirstRaising(files) IN
              /\ k > 0 =>
                    /\ all_chunks'[Uploader] = ChunksOfFirst(Uploader, files, k - 1)
                    /\ pc'[Uploader] = "idle"
                    /\ disk' = disk
                    /\ report'[Uploader] \in {FileError, SplitError}
              /\ (k = 0 /\ ChunksOfFirst(Uploader, files, Len(files)) = <<>>) =>
                    /\ pc'[Uploader] = "idle"
                    /\ disk' = disk
                    /\ report'[Uploader] = None]_vars

\* A batch whose first file yielded chunks and whose second file raised: the
\* chunks are held, nothing was written and the write sequence is not pending.
C13_Witness ==
    /\ report[Uploader] \in {FileError, SplitError}
    /\ all_chunks[Uploader] # <<>>
    /\ pc[Uploader] = "idle"
    /\ ~pre[Uploader].called
    /\ disk = NoIndex

====
